---- MODULE Spec2Model ----
(***************************************************************************)
(* Model of the data collection scripts of oth-datapipeline:               *)
(*   - the batch driver main() of src/src/data_collection.py, with the     *)
(*     worker pool, the result loop and the run summary;                   *)
(*   - Producer.publish of src/src/producer.py and split_rss_feed of       *)
(*     src/src/helper.py;                                                  *)
(*   - the streaming session of src/src/data_streamers.py: the rule        *)
(*     reconciliation _get_current_trends, the schedule thread with its    *)
(*     threading.Timer, stream_into_producer and the on_response /         *)
(*     on_errors callbacks.                                                *)
(* Spec is the batch run, SpecStream the streaming session, SpecPass the    *)
(* first reconciliation pass of a session over a larger set of topics.     *)
(* SpecPublish is Producer.publish called directly, several times.         *)
(***************************************************************************)
EXTENDS Integers, Sequences, FiniteSets, TLC

(* ------------------------------ bounds -------------------------------- *)
\* The largest number of elements of an index page.
MaxAnchors == 3
MaxItems == 2        \* items enumerated in one batch run
MaxEntries == 2      \* entries of one feed / records of one twitter result
MaxWorkers == 2      \* largest configured General.MaxWorkers
MaxTopics == 4       \* distinct trending topics, for one reconciliation pass
MaxSessionTopics == 2 \* distinct trending topics during one streaming session
MaxEvents == 1       \* tweets delivered by the stream in one session
MaxCalls == 2        \* publish calls made on one Producer

VARIABLES
    \* ---- batch run: main() ----
    data_source,       \* args.data_source
    producer_ok,       \* whether Producer.__init__ managed to set self._producer
    max_workers,       \* config General.MaxWorkers
    pc,                \* position of main(): enum, loop, send, flush, returned, done, crashed
    fstate,            \* futures: item -> pending | running | done
    fresult,           \* futures: item -> outcome of the worker function
    yielded,           \* futures as_completed has handed to the loop
    cur,               \* the future of the current loop iteration (0: none)
    units,             \* messages of the running publish call not yet sent
    count_successful,
    count_failed,
    log_level,         \* item -> level of the log entry the loop wrote for it
    log_origin,        \* item -> where the traceback of its error entry starts
    report,            \* records inserted into the job collection
    \* ---- broker client (KafkaProducer) ----
    next_key,          \* number of keys uuid.uuid4() has produced
    buffer,            \* messages accepted by send() and not yet acknowledged
    delivered,         \* messages the broker has acknowledged
    calls,             \* the publish calls made on the Producer directly
    \* ---- streaming session: TwitterDataStreamer ----
    trend_pool,        \* the topics that trend during the run
    rules,             \* the transport's active stream rules: set of [id, tag]
    stop_thread,       \* self.stop_thread
    main_pc,           \* position of stream_into_producer, or the exception
                       \*   that has left it
    sched_pc,          \* position of the schedule thread
    tstate,            \* the Timer self.timer refers to: none | new | waiting |
                       \*   firing | running | dead
    tfinished,         \* whether the finished Event of that Timer is set
    ppc,               \* executing thread -> position inside _get_current_trends
    presults,          \* executing thread -> local results: the trend names fetched
    ptrends,           \* executing thread -> local list trends
    prules,            \* executing thread -> local rules (get_rules().data)
    pdelete,           \* executing thread -> local delete_ids
    events,            \* tweets on_response has been called with
    \* ---- RssDataCollector._get_feed_urls ----
    index_page,        \* the page served at base_url: its elements in page order
    site_content,      \* site_content.text: the text of the response
    feed_entries,      \* local feed_entries
    entry_no,          \* position of the for loop in feed_entries
    rss_urls,          \* local rss_urls
    index_pc           \* position inside get_data_collection_futures

batchVars == <<data_source, producer_ok, max_workers, pc, fstate, fresult, yielded,
               cur, units, count_successful, count_failed, log_level, log_origin, report>>
brokerVars == <<next_key, buffer, delivered, calls>>
streamVars == <<trend_pool, rules, stop_thread, main_pc, sched_pc, tstate,
                tfinished, ppc, presults, ptrends, prules, pdelete, events>>
indexVars == <<index_page, site_content, feed_entries, entry_no, rss_urls, index_pc>>
vars == <<batchVars, brokerVars, streamVars, indexVars>>

(* ------------------------- values and strings ------------------------- *)
\* A Python str is the sequence of its symbols; a dict is the sequence of its
\* key/value pairs in insertion order; a list is a sequence.
Sources == {"rss", "reddit", "twitter"}

\* Python's `word in topic` (substring test) for the topic names in use.
Contains(topic, word) ==
    CASE word = "rss" -> topic = "rss"
      [] word = "twitter" -> topic \in {"twitter", "twitter-stream"}
      [] OTHER -> FALSE

EntryLink(i, k) == "link" \o ToString(i) \o "_" \o ToString(k)
FeedTitle(i) == "feed" \o ToString(i)
TweetId(i, k) == "tweet" \o ToString(i) \o "_" \o ToString(k)
SubmissionId(i) == "submission" \o ToString(i)

Str(symbols) == [t |-> "str", v |-> symbols]
Dict(pairs) == [t |-> "dict", v |-> pairs]
List(elems) == [t |-> "list", v |-> elems]

RECURSIVE JoinPairs(_)
JoinPairs(pairs) ==
    IF pairs = <<>> THEN <<>>
    ELSE <<pairs[1][1], ":", pairs[1][2]>>
         \o (IF Len(pairs) > 1 THEN <<",">> \o JoinPairs(Tail(pairs)) ELSE <<>>)

\* json.dumps of a dict of atoms, of a str, of a list of dicts: the symbols of
\* the JSON text.
JsonDict(pairs) == <<"{">> \o JoinPairs(pairs) \o <<"}">>

RECURSIVE JoinDicts(_)
JoinDicts(elems) ==
    IF elems = <<>> THEN <<>>
    ELSE JsonDict(elems[1].v)
         \o (IF Len(elems) > 1 THEN <<",">> \o JoinDicts(Tail(elems)) ELSE <<>>)

json_dumps(x) ==
    CASE x.t = "dict" -> JsonDict(x.v)
      [] x.t = "str" -> <<"\"">> \o x.v \o <<"\"">>
      [] x.t = "list" -> <<"[">> \o JoinDicts(x.v) \o <<"]">>

\* `for message in messages`: a list yields its elements, a str yields its
\* characters, each a str of length one.
Iterate(x) ==
    CASE x.t = "list" -> x.v
      [] x.t = "str" -> [n \in 1..Len(x.v) |-> Str(<<x.v[n]>>)]
      [] x.t = "dict" -> [n \in 1..Len(x.v) |-> Str(<<x.v[n][1]>>)]

\* dict(entry, **{key: value}): the key keeps its place when the entry has
\* it, and is appended otherwise.
DictWith(pairs, key, value) ==
    IF \E n \in 1..Len(pairs) : pairs[n][1] = key
    THEN [n \in 1..Len(pairs) |->
             IF pairs[n][1] = key THEN <<key, value>> ELSE pairs[n]]
    ELSE Append(pairs, <<key, value>>)

(* ----------------------------- helper.py ------------------------------ *)
\* A raw feed document: feedparser.parse gives its feed title (absent when
\* the document has none) and its entries.
RawFeed(i, hasTitle, K) ==
    [title |-> IF hasTitle THEN <<FeedTitle(i)>> ELSE <<>>,
     entries |-> [k \in 1..K |-> Dict(<< <<"link", EntryLink(i, k)>> >>)]]

\* split_rss_feed: parsed.feed.title is read once per entry, and raises
\* AttributeError when the feed has no title.
SplitRaises(full_feed) == full_feed.entries # <<>> /\ full_feed.title = <<>>

split_rss_feed(full_feed) ==
    [n \in 1..Len(full_feed.entries) |->
        Dict(DictWith(full_feed.entries[n].v, "feed_source", full_feed.title[1]))]

(* ---------------------------- producer.py ----------------------------- *)
\* The message bodies one publish call hands to send(), in order, and
\* whether building them raises before the first send.
PublishRaises(topic, message) ==
    IF Contains(topic, "rss") THEN SplitRaises(message)
    ELSE IF Contains(topic, "twitter") THEN FALSE
    ELSE message.t # "str"

\* A split that sends the entries as they are, without the feed title.
RssUnits_untagged(raw_feed) ==
    [n \in 1..Len(raw_feed.entries) |-> json_dumps(raw_feed.entries[n])]

RssUnits(raw_feed) ==
    LET messages == split_rss_feed(raw_feed)
    IN  [n \in 1..Len(messages) |-> json_dumps(messages[n])]

TwitterUnits(tweets) ==
    LET messages == Iterate(tweets)
    IN  [n \in 1..Len(messages) |-> json_dumps(messages[n])]

PublishUnits(topic, message) ==
    IF Contains(topic, "rss") THEN RssUnits(message)
    ELSE IF Contains(topic, "twitter") THEN TwitterUnits(message)
    ELSE <<message.v>>

\* A generator that repeats itself.
uuid4_repeating(n) == 1

\* uuid.uuid4(): a fresh 128-bit random identifier; the n-th key drawn.
uuid4(n) == n + 1

(* ------------------- data_collectors.py: the workers ------------------ *)
\* What one tweet of _process_query / _process_tweet becomes.
TweetDict(id, trend) ==
    Dict(<< <<"tweet_id", id>>, <<"text", "text_" \o id>>,
            <<"created_at", "created_" \o id>>, <<"metrics", "metrics_" \o id>>,
            <<"author", "author_" \o id>>, <<"trend", trend>> >>)

SubmissionDict(i) ==
    Dict(<< <<"id", SubmissionId(i)>>, <<"title", "title_" \o SubmissionId(i)>> >>)

\* The outcomes of the worker function of item i:
\*   rss     get_request: the response, or None after any exception;
\*   reddit  _process_submission: the JSON text, or an exception of the client;
\*   twitter _process_query: the list of records, or an exception (of the
\*           client, or a requests exception of the HTTP session).
WorkerOutcomes(source, i) ==
    CASE source = "rss" ->
            {[kind |-> "None"]}
            \cup {[kind |-> "Response", text |-> RawFeed(i, h, K)] :
                     h \in BOOLEAN, K \in 0..MaxEntries}
      [] source = "reddit" ->
            {[kind |-> "value", val |-> Str(json_dumps(SubmissionDict(i)))],
             [kind |-> "raise", exc |-> "Exception"]}
      [] source = "twitter" ->
            {[kind |-> "value",
              val |-> List([k \in 1..K |-> TweetDict(TweetId(i, k), "trend" \o ToString(i))])] :
                     K \in 0..MaxEntries}
            \cup {[kind |-> "raise", exc |-> "RequestException"],
                  [kind |-> "raise", exc |-> "Exception"]}

(* ------------------------ data_collection.py -------------------------- *)
Items == DOMAIN fstate
Running == {i \in Items : fstate[i] = "running"}
Pending == {i \in Items : fstate[i] = "pending"}

Message(topic, key, value, call) ==
    [topic |-> topic, key |-> key, value |-> value, call |-> call]

InitBroker ==
    /\ next_key = 0
    /\ buffer = <<>>
    /\ delivered = <<>>
    /\ calls = <<>>

InitBatch ==
    /\ data_source \in Sources
    /\ producer_ok \in BOOLEAN
    /\ max_workers \in 1..MaxWorkers
    /\ pc = "enum"
    /\ fstate = <<>>
    /\ fresult = <<>>
    /\ yielded = {}
    /\ cur = 0
    /\ units = <<>>
    /\ count_successful = 0
    /\ count_failed = 0
    /\ log_level = <<>>
    /\ log_origin = <<>>
    /\ report = <<>>

\* The streaming session does not run during a batch run.
IdleStream ==
    /\ trend_pool = {}
    /\ rules = {}
    /\ stop_thread = FALSE
    /\ main_pc = "off"
    /\ sched_pc = "off"
    /\ tstate = "none"
    /\ tfinished = FALSE
    /\ ppc = [p \in {"main", "timer"} |-> "idle"]
    /\ presults = [p \in {"main", "timer"} |-> <<>>]
    /\ ptrends = [p \in {"main", "timer"} |-> <<>>]
    /\ prules = [p \in {"main", "timer"} |-> <<>>]
    /\ pdelete = [p \in {"main", "timer"} |-> <<>>]
    /\ events = <<>>

\* No index page is being read.
IdleIndex ==
    /\ index_page = <<>>
    /\ site_content = <<>>
    /\ feed_entries = <<>>
    /\ entry_no = 0
    /\ rss_urls = <<>>
    /\ index_pc = "off"

Init == InitBatch /\ InitBroker /\ IdleStream /\ IdleIndex

\* get_data_collection_futures raises while listing the items: the exception
\* leaves the with block and main().
EnumerateFails ==
    /\ pc = "enum"
    /\ pc' = "crashed"
    /\ UNCHANGED <<data_source, producer_ok, max_workers, fstate, fresult, yielded,
                   cur, units, count_successful, count_failed, log_level, log_origin, report>>
    /\ UNCHANGED <<brokerVars, streamVars, indexVars>>

\* get_data_collection_futures submits one future per listed item.
Enumerate ==
    /\ pc = "enum"
    /\ \E n \in 0..MaxItems :
          /\ fstate' = [i \in 1..n |-> "pending"]
          /\ fresult' = [i \in 1..n |-> [kind |-> "unset"]]
          /\ log_level' = [i \in 1..n |-> "none"]
          /\ log_origin' = [i \in 1..n |-> "none"]
    /\ pc' = "loop"
    /\ UNCHANGED <<data_source, producer_ok, max_workers, yielded, cur, units,
                   count_successful, count_failed, report>>
    /\ UNCHANGED <<brokerVars, streamVars, indexVars>>

\* executor.submit raises (the pool cannot start another thread) after n
\* tasks were queued: the exception leaves the `with` block, whose exit
\* waits for the pool.
SubmitFails ==
    /\ pc = "enum"
    /\ \E n \in 1..MaxItems :
          /\ fstate' = [i \in 1..n |-> "pending"]
          /\ fresult' = [i \in 1..n |-> [kind |-> "unset"]]
          /\ log_level' = [i \in 1..n |-> "none"]
          /\ log_origin' = [i \in 1..n |-> "none"]
    /\ pc' = "exiting"
    /\ UNCHANGED <<data_source, producer_ok, max_workers, yielded, cur, units,
                   count_successful, count_failed, report>>
    /\ UNCHANGED <<brokerVars, streamVars, indexVars>>

\* An exit of the `with` block that does not wait for the workers.
ExitScope_nowait ==
    /\ pc = "exiting"
    /\ pc' = "aborted"
    /\ UNCHANGED <<data_source, producer_ok, max_workers, fstate, fresult, yielded,
                   cur, units, count_successful, count_failed, log_level, log_origin, report>>
    /\ UNCHANGED <<brokerVars, streamVars, indexVars>>

\* ThreadPoolExecutor.__exit__ is shutdown(wait=True): the queued work items
\* are still run and the threads joined; then the exception leaves main().
ExitScope ==
    /\ pc = "exiting"
    /\ \A i \in Items : fstate[i] = "done"
    /\ pc' = "aborted"
    /\ UNCHANGED <<data_source, producer_ok, max_workers, fstate, fresult, yielded,
                   cur, units, count_successful, count_failed, log_level, log_origin, report>>
    /\ UNCHANGED <<brokerVars, streamVars, indexVars>>

\* A pool that starts a thread for every submitted task.
CanStart_unbounded(i) ==
    /\ fstate[i] = "pending"
    /\ \A j \in Pending : i <= j

\* ThreadPoolExecutor: a free worker takes the oldest queued work item.
CanStart(i) ==
    /\ fstate[i] = "pending"
    /\ \A j \in Pending : i <= j
    /\ Cardinality(Running) < max_workers

WorkerStart(i) ==
    /\ CanStart(i)
    /\ fstate' = [fstate EXCEPT ![i] = "running"]
    /\ UNCHANGED <<data_source, producer_ok, max_workers, pc, fresult, yielded, cur,
                   units, count_successful, count_failed, log_level, log_origin, report>>
    /\ UNCHANGED <<brokerVars, streamVars, indexVars>>

\* A worker that queues the item again when its fetch failed.
WorkerFinish_retrying(i) ==
    /\ fstate[i] = "running"
    /\ \E r \in WorkerOutcomes(data_source, i) :
          /\ fresult' = [fresult EXCEPT ![i] = r]
          /\ fstate' = [fstate EXCEPT
                            ![i] = IF r.kind \in {"raise", "None"} THEN "pending" ELSE "done"]
    /\ UNCHANGED <<data_source, producer_ok, max_workers, pc, yielded, cur,
                   units, count_successful, count_failed, log_level, log_origin, report>>
    /\ UNCHANGED <<brokerVars, streamVars, indexVars>>

WorkerFinish(i) ==
    /\ fstate[i] = "running"
    /\ \E r \in WorkerOutcomes(data_source, i) :
          fresult' = [fresult EXCEPT ![i] = r]
    /\ fstate' = [fstate EXCEPT ![i] = "done"]
    /\ UNCHANGED <<data_source, producer_ok, max_workers, pc, yielded, cur,
                   units, count_successful, count_failed, log_level, log_origin, report>>
    /\ UNCHANGED <<brokerVars, streamVars, indexVars>>

\* The warning branch without its counter.
FailRequest_uncounted(i) ==
    /\ log_level' = [log_level EXCEPT ![i] = "warning"]
    /\ log_origin' = [log_origin EXCEPT ![i] = "result"]
    /\ count_failed' = count_failed
    /\ count_successful' = count_successful
    /\ pc' = "loop"
    /\ cur' = 0
    /\ units' = <<>>

\* The error branch re-raising: the exception leaves the loop and main().
FailUnexpected_reraised(i, origin) ==
    /\ log_level' = [log_level EXCEPT ![i] = "error"]
    /\ log_origin' = [log_origin EXCEPT ![i] = origin]
    /\ count_failed' = count_failed + 1
    /\ count_successful' = count_successful
    /\ pc' = "crashed"
    /\ cur' = 0
    /\ units' = <<>>

\* except RequestException: warning, count_failed, continue.
FailRequest(i) ==
    /\ log_level' = [log_level EXCEPT ![i] = "warning"]
    /\ log_origin' = [log_origin EXCEPT ![i] = "result"]
    /\ count_failed' = count_failed + 1
    /\ count_successful' = count_successful
    /\ pc' = "loop"
    /\ cur' = 0
    /\ units' = <<>>

\* except Exception: error with the traceback, count_failed, continue.
FailUnexpected(i, origin) ==
    /\ log_level' = [log_level EXCEPT ![i] = "error"]
    /\ log_origin' = [log_origin EXCEPT ![i] = origin]
    /\ count_failed' = count_failed + 1
    /\ count_successful' = count_successful
    /\ pc' = "loop"
    /\ cur' = 0
    /\ units' = <<>>

\* future.result() re-raises the exception of the worker: the handler is
\* chosen by its class.
ResultRaised(i, exc) ==
    IF exc = "RequestException" THEN FailRequest(i) ELSE FailUnexpected(i, "result")

\* A loop that takes a raising publish for a published message.
PublishRaised_as_published(i) ==
    /\ log_level' = [log_level EXCEPT ![i] = "info"]
    /\ log_origin' = log_origin
    /\ count_successful' = count_successful + 1
    /\ count_failed' = count_failed
    /\ pc' = "loop"
    /\ cur' = 0
    /\ units' = <<>>

\* producer.publish raised (AttributeError, TypeError, a Kafka error): none
\* of them a RequestException.
PublishRaised(i) == FailUnexpected(i, "publish")

\* producer.publish(topic, message) up to its first send: the dispatch on the
\* topic and the decomposition of the message.
EnterPublish(i, topic, message) ==
    IF PublishRaises(topic, message)
    THEN PublishRaised(i)
    ELSE /\ cur' = i
         /\ units' = PublishUnits(topic, message)
         /\ pc' = IF PublishUnits(topic, message) = <<>> THEN "flush" ELSE "send"
         /\ UNCHANGED <<count_successful, count_failed, log_level, log_origin>>

\* A loop over the futures in the order of their submission.
NextResult_in_order(i) ==
    /\ pc = "loop"
    /\ fstate[i] = "done"
    /\ i \notin yielded
    /\ \A j \in Items : j < i => j \in yielded
    /\ yielded' = yielded \cup {i}
    /\ LET response == fresult[i]
       IN  CASE response.kind = "raise" -> ResultRaised(i, response.exc)
             [] response.kind = "None" -> FailUnexpected(i, "text")
             [] response.kind = "value" -> EnterPublish(i, data_source, response.val)
             [] response.kind = "Response" -> EnterPublish(i, data_source, response.text)
    /\ UNCHANGED <<data_source, producer_ok, max_workers, fstate, fresult, report>>
    /\ UNCHANGED <<brokerVars, streamVars, indexVars>>

\* One iteration of `for future in as_completed(futures)` up to the publish
\* call: future.result() re-raises the worker's exception; a result that is
\* neither str nor list is read through .text, which None does not have.
NextResult(i) ==
    /\ pc = "loop"
    /\ fstate[i] = "done"
    /\ i \notin yielded
    /\ yielded' = yielded \cup {i}
    /\ LET response == fresult[i]
       IN  CASE response.kind = "raise" -> ResultRaised(i, response.exc)
             [] response.kind = "None" -> FailUnexpected(i, "text")
             [] response.kind = "value" -> EnterPublish(i, data_source, response.val)
             [] response.kind = "Response" -> EnterPublish(i, data_source, response.text)
    /\ UNCHANGED <<data_source, producer_ok, max_workers, fstate, fresult, report>>
    /\ UNCHANGED <<brokerVars, streamVars, indexVars>>

\* self._producer.send(topic, key=key, value=value_bytes) of the publish
\* call in progress, after key = uuid4(): self._producer is missing when the
\* constructor failed (AttributeError); the client may raise (a Kafka
\* error); otherwise the message is buffered.
SendUnit ==
    /\ pc = "send"
    /\ next_key' = uuid4(next_key)
    /\ \/ /\ ~producer_ok
          /\ PublishRaised(cur)
          /\ UNCHANGED <<buffer, delivered>>
       \/ /\ producer_ok
          /\ PublishRaised(cur)
          /\ UNCHANGED <<buffer, delivered>>
       \/ /\ producer_ok
          /\ buffer' = Append(buffer, Message(data_source, uuid4(next_key), Head(units), cur))
          /\ units' = Tail(units)
          /\ pc' = IF Tail(units) = <<>> THEN "flush" ELSE "send"
          /\ UNCHANGED <<delivered, cur, count_successful, count_failed, log_level, log_origin>>
    /\ UNCHANGED <<data_source, producer_ok, max_workers, fstate, fresult, yielded, report>>
    /\ UNCHANGED <<calls, streamVars, indexVars>>

\* A publish that returns after its sends without waiting for the flush.
Flush_skipped ==
    /\ pc = "flush"
    /\ \/ /\ ~producer_ok
          /\ PublishRaised(cur)
          /\ UNCHANGED <<buffer, delivered>>
       \/ /\ producer_ok
          /\ pc' = "returned"
          /\ UNCHANGED <<buffer, delivered, cur, units, count_successful,
                         count_failed, log_level, log_origin>>
    /\ UNCHANGED <<data_source, producer_ok, max_workers, fstate, fresult, yielded, report>>
    /\ UNCHANGED <<next_key, calls, streamVars, indexVars>>

\* self._producer.flush(): returns when every buffered message is
\* acknowledged, or raises.
Flush ==
    /\ pc = "flush"
    /\ \/ /\ ~producer_ok
          /\ PublishRaised(cur)
          /\ UNCHANGED <<buffer, delivered>>
       \/ /\ producer_ok
          /\ PublishRaised(cur)
          /\ UNCHANGED <<buffer, delivered>>
       \/ /\ producer_ok
          /\ delivered' = delivered \o buffer
          /\ buffer' = <<>>
          /\ pc' = "returned"
          /\ UNCHANGED <<cur, units, count_successful, count_failed, log_level, log_origin>>
    /\ UNCHANGED <<data_source, producer_ok, max_workers, fstate, fresult, yielded, report>>
    /\ UNCHANGED <<next_key, calls, streamVars, indexVars>>

\* A loop that logs the published message without counting it.
Published_uncounted ==
    /\ pc = "returned"
    /\ log_level' = [log_level EXCEPT ![cur] = "info"]
    /\ log_origin' = log_origin
    /\ count_successful' = count_successful
    /\ pc' = "loop"
    /\ cur' = 0
    /\ UNCHANGED <<data_source, producer_ok, max_workers, fstate, fresult, yielded,
                   units, count_failed, report>>
    /\ UNCHANGED <<brokerVars, streamVars, indexVars>>

\* publish has returned: "Message published" is logged and the item counted.
Published ==
    /\ pc = "returned"
    /\ log_level' = [log_level EXCEPT ![cur] = "info"]
    /\ log_origin' = log_origin
    /\ count_successful' = count_successful + 1
    /\ pc' = "loop"
    /\ cur' = 0
    /\ UNCHANGED <<data_source, producer_ok, max_workers, fstate, fresult, yielded,
                   units, count_failed, report>>
    /\ UNCHANGED <<brokerVars, streamVars, indexVars>>

\* A loop that may be left while results are outstanding.
Summary_early ==
    /\ pc = "loop"
    /\ report' = Append(report, [successful_events |-> count_successful,
                                 failed_events |-> count_failed])
    /\ pc' = "done"
    /\ UNCHANGED <<data_source, producer_ok, max_workers, fstate, fresult, yielded,
                   cur, units, count_successful, count_failed, log_level, log_origin>>
    /\ UNCHANGED <<brokerVars, streamVars, indexVars>>

\* as_completed is exhausted: the with block joins the workers, the totals
\* are logged and the job record is inserted.
Summary ==
    /\ pc = "loop"
    /\ yielded = Items
    /\ report' = Append(report, [successful_events |-> count_successful,
                                 failed_events |-> count_failed])
    /\ pc' = "done"
    /\ UNCHANGED <<data_source, producer_ok, max_workers, fstate, fresult, yielded,
                   cur, units, count_successful, count_failed, log_level, log_origin>>
    /\ UNCHANGED <<brokerVars, streamVars, indexVars>>

\* The sender thread of the Kafka client delivers the batch of buffered
\* messages in the background.
BrokerDeliver ==
    /\ buffer # <<>>
    /\ producer_ok
    /\ delivered' = delivered \o buffer
    /\ buffer' = <<>>
    /\ UNCHANGED <<next_key, calls, batchVars, streamVars, indexVars>>

Next ==
    \/ EnumerateFails
    \/ Enumerate
    \/ SubmitFails
    \/ ExitScope
    \/ \E i \in Items : WorkerStart(i)
    \/ \E i \in Items : WorkerFinish(i)
    \/ \E i \in Items : NextResult(i)
    \/ SendUnit
    \/ Flush
    \/ Published
    \/ Summary
    \/ BrokerDeliver

Spec == Init /\ [][Next]_vars

(* -------------------------- data_streamers.py ------------------------- *)
Topic(n) == "trend" \o ToString(n)
Topics == {Topic(n) : n \in 1..MaxTopics}
Range(seq) == {seq[n] : n \in DOMAIN seq}

SessionTopics == {Topic(n) : n \in 1..MaxSessionTopics}

\* The trend names get_place_trends returns: a list of distinct names.
TrendLists(pool) ==
    {l \in UNION {[1..n -> pool] : n \in 0..Cardinality(pool)} :
        \A a, b \in DOMAIN l : a # b => l[a] # l[b]}

Rule(id, tag) == [id |-> id, tag |-> tag]
Tags(rs) == {r.tag : r \in rs}
Ids(rs) == {r.id : r \in rs}

\* The rules the transport holds when a session starts: those earlier
\* sessions left for the topics that trended then, one per tag, numbered in
\* the order of their tags.
InitialRuleSets ==
    {{Rule(Cardinality({m \in 1..n : Topic(m) \in T}), Topic(n)) :
         n \in {m \in 1..MaxTopics : Topic(m) \in T}} : T \in SUBSET Topics}

\* get_rules().data: the rules as a list, in the order of their ids.
RECURSIVE RuleList(_)
RuleList(rs) ==
    IF rs = {} THEN <<>>
    ELSE LET first == CHOOSE r \in rs : \A q \in rs : r.id <= q.id
         IN  <<first>> \o RuleList(rs \ {first})

\* A remove that leaves the list as it is.
ListRemove_nothing(l, x) == l

\* list.remove(x): drops the first occurrence of x.
ListRemove(l, x) ==
    LET at == CHOOSE n \in DOMAIN l : l[n] = x /\ \A m \in 1..(n - 1) : l[m] # x
    IN  [n \in 1..(Len(l) - 1) |-> IF n < at THEN l[n] ELSE l[n + 1]]

\* The loop over the rules: a rule whose tag is a trend takes the tag out of
\* trends, any other rule is marked for deletion.
RECURSIVE DiffRules(_, _, _)
DiffRules(rule_list, trends, delete_ids) ==
    IF rule_list = <<>> THEN [trends |-> trends, delete_ids |-> delete_ids]
    ELSE IF Head(rule_list).tag \in Range(trends)
    THEN DiffRules(Tail(rule_list), ListRemove(trends, Head(rule_list).tag), delete_ids)
    ELSE DiffRules(Tail(rule_list), trends, Append(delete_ids, Head(rule_list).id))

\* A delete_rules the transport ignores.
DeleteRulesOf_ignored(rs, ids) == rs

\* client.delete_rules(ids), at the transport.
DeleteRulesOf(rs, ids) == {r \in rs : r.id \notin Range(ids)}

\* The id the transport gives to a new rule: one that no rule it holds has.
FreshId(rs) ==
    CHOOSE n \in 1..(Cardinality(rs) + 1) :
        n \notin Ids(rs) /\ \A m \in 1..(n - 1) : m \in Ids(rs)

\* client.add_rules(new_rules), at the transport: one rule per element.
RECURSIVE AddRulesOf(_, _)
AddRulesOf(rs, trends) ==
    IF trends = <<>> THEN rs
    ELSE AddRulesOf(rs \cup {Rule(FreshId(rs), Head(trends))}, Tail(trends))

Threads == {"main", "timer"}

\* stream_into_producer has created the client and calls
\* _get_current_trends for the first time.
InitSession(pool) ==
    /\ trend_pool = pool
    /\ rules \in InitialRuleSets
    /\ stop_thread = FALSE
    /\ main_pc = "init_pass"
    /\ sched_pc = "not_started"
    /\ tstate = "none"
    /\ tfinished = FALSE
    /\ ppc = [p \in Threads |-> IF p = "main" THEN "get_trends" ELSE "idle"]
    /\ presults = [p \in Threads |-> <<>>]
    /\ ptrends = [p \in Threads |-> <<>>]
    /\ prules = [p \in Threads |-> <<>>]
    /\ pdelete = [p \in Threads |-> <<>>]
    /\ events = <<>>

\* The batch driver does not run during a streaming session.
IdleBatch ==
    /\ data_source = "twitter-stream"
    /\ producer_ok \in BOOLEAN
    /\ max_workers = 1
    /\ pc = "off"
    /\ fstate = <<>>
    /\ fresult = <<>>
    /\ yielded = {}
    /\ cur = 0
    /\ units = <<>>
    /\ count_successful = 0
    /\ count_failed = 0
    /\ log_level = <<>>
    /\ log_origin = <<>>
    /\ report = <<>>

InitS == IdleBatch /\ InitBroker /\ InitSession(SessionTopics) /\ IdleIndex

InitP == IdleBatch /\ InitBroker /\ InitSession(Topics) /\ IdleIndex

\* _get_current_trends returns, or is left by an exception: its frame, and
\* the locals with it, are gone.
Return(p) ==
    /\ ppc' = [ppc EXCEPT ![p] = "idle"]
    /\ presults' = [presults EXCEPT ![p] = <<>>]
    /\ ptrends' = [ptrends EXCEPT ![p] = <<>>]
    /\ prules' = [prules EXCEPT ![p] = <<>>]
    /\ pdelete' = [pdelete EXCEPT ![p] = <<>>]
    /\ UNCHANGED <<trend_pool, rules>>

sessionVars == <<stop_thread, main_pc, sched_pc, tstate, tfinished, events>>

\* The exceptions that leave _get_current_trends: the one of the API client
\* (get_place_trends), and the TypeError of the loop over rules that are None.
PassExceptions == {"TweepyException", "TypeError"}

\* An exception leaves _get_current_trends.
PassRaises(p, exc) ==
    /\ ppc' = [ppc EXCEPT ![p] = exc]
    /\ UNCHANGED <<trend_pool, rules, presults, ptrends, prules, pdelete>>

\* results = self._API.get_place_trends(...)[0]; trends = [names].
GetTrends(p) ==
    /\ ppc[p] = "get_trends"
    /\ \/ PassRaises(p, "TweepyException")
       \/ \E l \in TrendLists(trend_pool) :
             /\ presults' = [presults EXCEPT ![p] = l]
             /\ ptrends' = [ptrends EXCEPT ![p] = l]
             /\ ppc' = [ppc EXCEPT ![p] = "get_rules"]
             /\ UNCHANGED <<trend_pool, rules, prules, pdelete>>
    /\ UNCHANGED <<sessionVars, batchVars, brokerVars, indexVars>>

\* A pass that calls delete_rules whatever the loop has found.
AfterDiff_always_delete(delete_ids, trends) == "delete"

\* A pass that adds before it deletes, and then ends.
AfterDiff_add_first(delete_ids, trends) ==
    IF Len(trends) > 0 THEN "add"
    ELSE IF Len(delete_ids) > 0 THEN "delete" ELSE "done"

\* Where the pass goes after the loop over the rules and after delete_rules.
AfterDiff(delete_ids, trends) ==
    IF Len(delete_ids) > 0 THEN "delete"
    ELSE IF Len(trends) > 0 THEN "add" ELSE "done"

AfterDelete(trends) == IF Len(trends) > 0 THEN "add" ELSE "done"

\* rules = client.get_rules().data and the loop over it. The response holds
\* no data (None) when the transport has no rule, and the loop raises
\* TypeError.
GetRules(p) ==
    /\ ppc[p] = "get_rules"
    /\ \/ /\ rules = {}
          /\ PassRaises(p, "TypeError")
       \/ /\ rules # {}
          /\ LET d == DiffRules(RuleList(rules), ptrends[p], <<>>)
             IN  /\ prules' = [prules EXCEPT ![p] = RuleList(rules)]
                 /\ ptrends' = [ptrends EXCEPT ![p] = d.trends]
                 /\ pdelete' = [pdelete EXCEPT ![p] = d.delete_ids]
                 /\ ppc' = [ppc EXCEPT ![p] = AfterDiff(d.delete_ids, d.trends)]
          /\ UNCHANGED <<trend_pool, rules, presults>>
    /\ UNCHANGED <<sessionVars, batchVars, brokerVars, indexVars>>

\* client.delete_rules(delete_ids)
DeleteRules(p) ==
    /\ ppc[p] = "delete"
    /\ rules' = DeleteRulesOf(rules, pdelete[p])
    /\ ppc' = [ppc EXCEPT ![p] = AfterDelete(ptrends[p])]
    /\ UNCHANGED <<trend_pool, presults, ptrends, prules, pdelete>>
    /\ UNCHANGED <<sessionVars, batchVars, brokerVars, indexVars>>

\* client.add_rules(new_rules), one StreamRule per remaining trend
AddRules(p) ==
    /\ ppc[p] = "add"
    /\ rules' = AddRulesOf(rules, ptrends[p])
    /\ ppc' = [ppc EXCEPT ![p] = "done"]
    /\ UNCHANGED <<trend_pool, presults, ptrends, prules, pdelete>>
    /\ UNCHANGED <<sessionVars, batchVars, brokerVars, indexVars>>

passVars == <<trend_pool, rules, ppc, presults, ptrends, prules, pdelete>>

\* stream_into_producer: the first pass raised, and the exception leaves
\* stream_into_producer.
SessionCrashes ==
    /\ main_pc = "init_pass"
    /\ ppc["main"] \in PassExceptions
    /\ main_pc' = ppc["main"]
    /\ Return("main")
    /\ UNCHANGED <<stop_thread, sched_pc, tstate, tfinished, events>>
    /\ UNCHANGED <<batchVars, brokerVars, indexVars>>

\* stream_into_producer after the first pass: the first Timer is created,
\* the schedule thread started and client.filter entered.
StartSession ==
    /\ main_pc = "init_pass"
    /\ ppc["main"] = "done"
    /\ tstate' = "new"
    /\ tfinished' = FALSE
    /\ sched_pc' = "while"
    /\ main_pc' = "filter"
    /\ Return("main")
    /\ UNCHANGED <<stop_thread, events>>
    /\ UNCHANGED <<batchVars, brokerVars, indexVars>>

\* A loop that does not look at stop_thread.
SchedWhile_forever ==
    /\ sched_pc = "while"
    /\ sched_pc' = "start"
    /\ UNCHANGED <<stop_thread, main_pc, tstate, tfinished, events>>
    /\ UNCHANGED <<passVars, batchVars, brokerVars, indexVars>>

\* schedule: `while not self.stop_thread`
SchedWhile ==
    /\ sched_pc = "while"
    /\ sched_pc' = IF stop_thread THEN "exited" ELSE "start"
    /\ UNCHANGED <<stop_thread, main_pc, tstate, tfinished, events>>
    /\ UNCHANGED <<passVars, batchVars, brokerVars, indexVars>>

\* schedule: self.timer.start()
SchedStart ==
    /\ sched_pc = "start"
    /\ tstate = "new"
    /\ tstate' = "waiting"
    /\ sched_pc' = "join"
    /\ UNCHANGED <<stop_thread, main_pc, tfinished, events>>
    /\ UNCHANGED <<passVars, batchVars, brokerVars, indexVars>>

\* A join that returns while the timer thread is alive.
SchedJoin_nowait ==
    /\ sched_pc = "join"
    /\ sched_pc' = "new"
    /\ UNCHANGED <<stop_thread, main_pc, tstate, tfinished, events>>
    /\ UNCHANGED <<passVars, batchVars, brokerVars, indexVars>>

\* schedule: self.timer.join() returns once the timer thread has ended
SchedJoin ==
    /\ sched_pc = "join"
    /\ tstate = "dead"
    /\ sched_pc' = "new"
    /\ UNCHANGED <<stop_thread, main_pc, tstate, tfinished, events>>
    /\ UNCHANGED <<passVars, batchVars, brokerVars, indexVars>>

\* A schedule that ends after its first timer.
SchedNewTimer_once ==
    /\ sched_pc = "new"
    /\ sched_pc' = "exited"
    /\ UNCHANGED <<stop_thread, main_pc, tstate, tfinished, events>>
    /\ UNCHANGED <<passVars, batchVars, brokerVars, indexVars>>

\* schedule: self.timer = threading.Timer(...), a new Timer object in the
\* place of the one that has ended
SchedNewTimer ==
    /\ sched_pc = "new"
    /\ tstate' = "new"
    /\ tfinished' = FALSE
    /\ sched_pc' = "while"
    /\ UNCHANGED <<stop_thread, main_pc, events>>
    /\ UNCHANGED <<passVars, batchVars, brokerVars, indexVars>>

\* Timer.run: self.finished.wait(self.interval) returns, at the end of the
\* interval or when the event is set, and `if not self.finished.is_set()` is
\* evaluated; a cancelled timer ends without calling the function.
TimerWakes ==
    /\ tstate = "waiting"
    /\ tstate' = IF tfinished THEN "dead" ELSE "firing"
    /\ UNCHANGED <<stop_thread, main_pc, sched_pc, tfinished, events>>
    /\ UNCHANGED <<passVars, batchVars, brokerVars, indexVars>>

\* Timer.run: self.function(*self.args), that is _get_current_trends(client)
TimerCalls ==
    /\ tstate = "firing"
    /\ tstate' = "running"
    /\ ppc' = [ppc EXCEPT !["timer"] = "get_trends"]
    /\ UNCHANGED <<trend_pool, rules, presults, ptrends, prules, pdelete>>
    /\ UNCHANGED <<stop_thread, main_pc, sched_pc, tfinished, events>>
    /\ UNCHANGED <<batchVars, brokerVars, indexVars>>

\* Timer.run: the function has returned (self.finished.set()) or raised, and
\* the timer thread ends.
TimerEnds ==
    /\ tstate = "running"
    /\ ppc["timer"] \in {"done"} \cup PassExceptions
    /\ tstate' = "dead"
    /\ tfinished' = ((ppc["timer"] = "done") \/ tfinished)
    /\ Return("timer")
    /\ UNCHANGED <<stop_thread, main_pc, sched_pc, events>>
    /\ UNCHANGED <<batchVars, brokerVars, indexVars>>

\* A _process_tweet that looks the trend up in the active rules.
process_tweet_lookup(tweet_id, matching_rules) ==
    Str(json_dumps(List(<<TweetDict(tweet_id, (CHOOSE r \in rules : TRUE).tag)>>)))

\* _process_tweet: json.dumps([result]), a str.
process_tweet(tweet_id, matching_rules) ==
    Str(json_dumps(List(<<TweetDict(tweet_id, matching_rules[1].tag)>>)))

\* The messages the sends of one publish call buffer, the n-th with the n-th
\* key drawn from first_key on.
SentMessages(topic, bodies, first_key, call) ==
    [n \in 1..Len(bodies) |->
        Message(topic, uuid4(first_key + n - 1), bodies[n], call)]

Prefix(seq, n) == [m \in 1..n |-> seq[m]]

\* Where a publish call may fail: at its first send, or at the flush after
\* all its sends.
FailPoints(bodies) == {0, Len(bodies)}

\* A publish that swallows the error of a send and returns after the flush.
PublishAll_swallowing(topic, bodies, call, sent, flushed) ==
    LET msgs == SentMessages(topic, bodies, next_key, call)
    IN  /\ ~producer_ok => sent = 0 /\ ~flushed
        /\ next_key' = next_key + (IF sent < Len(bodies) THEN sent + 1 ELSE sent)
        /\ IF flushed
           THEN /\ delivered' = delivered \o buffer \o Prefix(msgs, sent)
                /\ buffer' = <<>>
           ELSE /\ buffer' = buffer \o Prefix(msgs, sent)
                /\ delivered' = delivered

\* The sends and the flush of one publish call as one step, for the bodies
\* it decomposed its message into: `sent` sends succeed; the call returns
\* when all of them and the flush succeeded.
PublishAll(topic, bodies, call, sent, flushed) ==
    LET msgs == SentMessages(topic, bodies, next_key, call)
    IN  /\ flushed => sent = Len(bodies)
        /\ ~producer_ok => sent = 0 /\ ~flushed
        /\ next_key' = next_key + (IF sent < Len(bodies) THEN sent + 1 ELSE sent)
        /\ IF flushed
           THEN /\ delivered' = delivered \o buffer \o msgs
                /\ buffer' = <<>>
           ELSE /\ buffer' = buffer \o Prefix(msgs, sent)
                /\ delivered' = delivered

\* on_response: the tweet is processed and published on 'twitter-stream'.
\* The transport names the rules that matched, of those it holds. An
\* exception of publish ends the stream: client.filter returns.
OnResponse ==
    /\ main_pc = "filter"
    /\ Len(events) < MaxEvents
    /\ \E r \in rules :
          LET tweet_id == "tweet" \o ToString(Len(events) + 1)
              result_json == process_tweet(tweet_id, <<r>>)
              bodies == PublishUnits("twitter-stream", result_json)
          IN  \E sent \in FailPoints(bodies), flushed \in BOOLEAN :
                 /\ PublishAll("twitter-stream", bodies, Len(events) + 1, sent, flushed)
                 /\ events' = Append(events, [tweet_id |-> tweet_id, tag |-> r.tag,
                                              published |-> flushed])
                 /\ main_pc' = IF flushed THEN "filter" ELSE "stopping"
    /\ UNCHANGED <<stop_thread, sched_pc, tstate, tfinished>>
    /\ UNCHANGED <<passVars, batchVars, calls, indexVars>>

\* on_errors: the errors are logged and the client disconnects, which makes
\* client.filter return.
OnErrors ==
    /\ main_pc = "filter"
    /\ main_pc' = "stopping"
    /\ UNCHANGED <<stop_thread, sched_pc, tstate, tfinished, events>>
    /\ UNCHANGED <<passVars, batchVars, brokerVars, indexVars>>

\* stream_into_producer: self.stop_thread = True
SetStop ==
    /\ main_pc = "stopping"
    /\ stop_thread' = TRUE
    /\ main_pc' = "cancel"
    /\ UNCHANGED <<sched_pc, tstate, tfinished, events>>
    /\ UNCHANGED <<passVars, batchVars, brokerVars, indexVars>>

\* An end of stream_into_producer that leaves the Timer as it is.
CancelTimer_forgotten ==
    /\ main_pc = "cancel"
    /\ main_pc' = "returned"
    /\ UNCHANGED <<stop_thread, sched_pc, tstate, tfinished, events>>
    /\ UNCHANGED <<passVars, batchVars, brokerVars, indexVars>>

\* stream_into_producer: self.timer.cancel() sets the finished event of the
\* Timer self.timer refers to at that moment.
CancelTimer ==
    /\ main_pc = "cancel"
    /\ tfinished' = TRUE
    /\ main_pc' = "returned"
    /\ UNCHANGED <<stop_thread, sched_pc, tstate, events>>
    /\ UNCHANGED <<passVars, batchVars, brokerVars, indexVars>>

NextS ==
    \/ \E p \in Threads : GetTrends(p)
    \/ \E p \in Threads : GetRules(p)
    \/ \E p \in Threads : DeleteRules(p)
    \/ \E p \in Threads : AddRules(p)
    \/ SessionCrashes
    \/ StartSession
    \/ SchedWhile
    \/ SchedStart
    \/ SchedJoin
    \/ SchedNewTimer
    \/ TimerWakes
    \/ TimerCalls
    \/ TimerEnds
    \/ OnResponse
    \/ OnErrors
    \/ SetStop
    \/ CancelTimer
    \/ BrokerDeliver

SpecStream == InitS /\ [][NextS]_vars

\* The session as the threads see it when the stream delivers no tweet: the
\* passes, the schedule thread, the timers and the end of the stream.
NextSchedule ==
    \/ \E p \in Threads : GetTrends(p)
    \/ \E p \in Threads : GetRules(p)
    \/ \E p \in Threads : DeleteRules(p)
    \/ \E p \in Threads : AddRules(p)
    \/ SessionCrashes
    \/ StartSession
    \/ SchedWhile
    \/ SchedStart
    \/ SchedJoin
    \/ SchedNewTimer
    \/ TimerWakes
    \/ TimerCalls
    \/ TimerEnds
    \/ OnErrors
    \/ SetStop
    \/ CancelTimer

\* Every thread that can take a step takes it in the end, and every call to
\* the API returns or raises: the main thread up to client.filter and after
\* it, the schedule thread, and the thread of each Timer. When the stream
\* ends is up to the transport.
FairThreads ==
    /\ \A p \in Threads :
          /\ WF_vars(GetTrends(p))
          /\ WF_vars(GetRules(p))
          /\ WF_vars(DeleteRules(p))
          /\ WF_vars(AddRules(p))
    /\ WF_vars(SessionCrashes)
    /\ WF_vars(StartSession)
    /\ WF_vars(SchedWhile)
    /\ WF_vars(SchedStart)
    /\ WF_vars(SchedJoin)
    /\ WF_vars(SchedNewTimer)
    /\ WF_vars(TimerWakes)
    /\ WF_vars(TimerCalls)
    /\ WF_vars(TimerEnds)
    /\ WF_vars(SetStop)
    /\ WF_vars(CancelTimer)

\* The broker plays no part in it: the Producer is the one that was built.
InitSchedule == InitS /\ producer_ok = TRUE

SpecSchedule == InitSchedule /\ [][NextSchedule]_vars /\ FairThreads

\* The first reconciliation pass of a session, up to the point where
\* stream_into_producer goes on or is left by the exception.
NextP ==
    \/ GetTrends("main")
    \/ GetRules("main")
    \/ DeleteRules("main")
    \/ AddRules("main")
    \/ SessionCrashes

SpecPass == InitP /\ [][NextP]_vars

(* ------------------- producer.py: publish on its own ------------------- *)
PublishTopics == {"rss", "reddit", "twitter", "twitter-stream"}

\* The payloads the callers of publish pass on each topic: the text of a
\* feed document, the JSON text of a submission, the list of records of a
\* query, the JSON text _process_tweet returns.
PayloadsOf(topic) ==
    CASE topic = "rss" -> {RawFeed(1, h, K) : h \in BOOLEAN, K \in 0..MaxEntries}
      [] topic = "reddit" -> {Str(json_dumps(SubmissionDict(1)))}
      [] topic = "twitter" ->
            {List([k \in 1..K |-> TweetDict(TweetId(1, k), Topic(1))]) : K \in 0..MaxEntries}
      [] topic = "twitter-stream" ->
            {process_tweet(TweetId(1, 1), <<Rule(1, Topic(1))>>)}

InitPublish == IdleBatch /\ InitBroker /\ IdleStream /\ IdleIndex

\* Where a send of a publish call made directly may fail: at the first
\* send, at the second, or not at all (and then the flush may).
SendFailPoints(bodies) == {n \in {0, 1, Len(bodies)} : n <= Len(bodies)}

\* One call producer.publish(topic, message), from its entry to its return
\* or to the exception that leaves it: the split of the message may raise
\* before the first send; `sent` sends succeed; the call returns when all of
\* them and the flush succeeded.
PublishCall ==
    /\ Len(calls) < MaxCalls
    /\ \E topic \in PublishTopics :
          \E message \in PayloadsOf(topic) :
             IF PublishRaises(topic, message)
             THEN /\ calls' = Append(calls, [topic |-> topic, message |-> message,
                                              outcome |-> "raised"])
                  /\ UNCHANGED <<next_key, buffer, delivered>>
             ELSE LET bodies == PublishUnits(topic, message)
                  IN  \E sent \in SendFailPoints(bodies), flushed \in BOOLEAN :
                         /\ PublishAll(topic, bodies, Len(calls) + 1, sent, flushed)
                         /\ calls' = Append(calls,
                               [topic |-> topic, message |-> message,
                                outcome |-> IF flushed THEN "returned" ELSE "raised"])
    /\ UNCHANGED <<batchVars, streamVars, indexVars>>

NextPublish ==
    \/ PublishCall
    \/ BrokerDeliver

SpecPublish == InitPublish /\ [][NextPublish]_vars

(* --------------- data_collectors.py: the rss enumeration --------------- *)
\* The text of a page is a sequence of symbols, each a piece of markup no
\* pattern of constants.py matches part of: the opening of an anchor up to
\* and including the blank after its class, an attribute, the end of the
\* opening tag, a text, the closing tag, a line break.
OpenExt == "<a class=\"ext\" "
OpenOther == "<a class=\"nav\" "
HrefA == "href=\"http://a.example/rss\""
HrefB == "href=\"https://b.example/feed\""
HrefRelative == "href=\"/about\""
TagEnd == ">"
AnchorText == "feed"
AnchorClose == "</a>"
LineBreak == "\n"

HttpHrefs == {HrefA, HrefB}

\* What the group of FEED_URL_REGEX captures in an attribute it matches.
UrlOf(attribute) ==
    CASE attribute = HrefA -> "http://a.example/rss"
      [] attribute = HrefB -> "https://b.example/feed"

Anchor(open, attributes) ==
    <<open>> \o attributes \o <<TagEnd, AnchorText, AnchorClose>>

\* The elements an index page is made of: anchors of the class of the feed
\* entries with an http href, with a relative href, with an http address in
\* two attributes, and with a line break inside the tag; an anchor of
\* another class; a line break between two elements.
PageElements ==
    {Anchor(OpenExt, <<h>>) : h \in HttpHrefs}
        \cup {Anchor(OpenExt, <<HrefRelative>>),
              Anchor(OpenExt, <<HrefB, HrefA>>),
              Anchor(OpenExt, <<LineBreak, HrefB>>),
              Anchor(OpenOther, <<HrefA>>),
              <<LineBreak>>}

Pages == UNION {[1..n -> PageElements] : n \in 0..MaxAnchors}

RECURSIVE Flatten(_)
Flatten(elements) ==
    IF elements = <<>> THEN <<>> ELSE Head(elements) \o Flatten(Tail(elements))

\* The symbols in which the character > occurs.
HasTagEnd(symbol) == symbol \in {TagEnd, AnchorClose}

\* The first position from `from` on, before any line break, whose symbol
\* is in `wanted`; 0 when there is none.
FirstOnLine(text, from, wanted) ==
    LET hits == {n \in from..Len(text) :
                    /\ text[n] \in wanted
                    /\ \A m \in from..n : text[m] # LineBreak}
    IN  IF hits = {} THEN 0 ELSE CHOOSE n \in hits : \A m \in hits : n <= m

\* Where a match of FEED_ENTRY_REGEX = <a class="ext" .*?>.*?</a> that
\* starts at `start` ends, 0 when none starts there: the two .*? take as
\* little as they can and never a line break.
EntryEnd(text, start) ==
    IF text[start] # OpenExt THEN 0
    ELSE LET gt == FirstOnLine(text, start + 1, {TagEnd, AnchorClose})
         IN  IF gt = 0 THEN 0 ELSE FirstOnLine(text, gt + 1, {AnchorClose})

\* re.findall(FEED_ENTRY_REGEX, text): the matches from left to right, each
\* search going on behind the match before.
RECURSIVE findall(_, _)
findall(text, from) ==
    IF from > Len(text) THEN <<>>
    ELSE IF EntryEnd(text, from) > 0
         THEN <<SubSeq(text, from, EntryEnd(text, from))>>
                  \o findall(text, EntryEnd(text, from) + 1)
         ELSE findall(text, from + 1)

\* re.search(FEED_URL_REGEX, feed_entry) with FEED_URL_REGEX =
\* href="(http.+?)": the leftmost match, None when there is none.
search(feed_entry) ==
    LET hits == {n \in DOMAIN feed_entry : feed_entry[n] \in HttpHrefs}
    IN  IF hits = {} THEN "None"
        ELSE UrlOf(feed_entry[CHOOSE n \in hits : \A m \in hits : n <= m])

\* The rss run at the enumeration, with the index page about to be fetched.
InitFeedUrls ==
    /\ InitBatch /\ data_source = "rss" /\ producer_ok = TRUE
    /\ InitBroker /\ IdleStream
    /\ index_page \in Pages
    /\ site_content = <<>>
    /\ feed_entries = <<>>
    /\ entry_no = 0
    /\ rss_urls = <<>>
    /\ index_pc = "get"

\* site_content = requests.get(self.base_url, headers=headers)
GetIndexPage ==
    /\ index_pc = "get"
    /\ site_content' = Flatten(index_page)
    /\ index_pc' = "findall"
    /\ UNCHANGED <<index_page, feed_entries, entry_no, rss_urls>>
    /\ UNCHANGED <<batchVars, brokerVars, streamVars>>

\* feed_entries = re.findall(FEED_ENTRY_REGEX, site_content.text); rss_urls = []
FindEntries ==
    /\ index_pc = "findall"
    /\ feed_entries' = findall(site_content, 1)
    /\ rss_urls' = <<>>
    /\ entry_no' = 1
    /\ index_pc' = "loop"
    /\ UNCHANGED <<index_page, site_content>>
    /\ UNCHANGED <<batchVars, brokerVars, streamVars>>

\* A loop body that appends whatever the search gave.
AppendUrl_unconditional ==
    /\ index_pc = "loop"
    /\ entry_no <= Len(feed_entries)
    /\ rss_urls' = Append(rss_urls, search(feed_entries[entry_no]))
    /\ entry_no' = entry_no + 1
    /\ UNCHANGED <<index_page, site_content, feed_entries, index_pc>>
    /\ UNCHANGED <<batchVars, brokerVars, streamVars>>

\* One pass of the for loop:
\* rss_urls.append(url.group(1)) if url else None
AppendUrl ==
    /\ index_pc = "loop"
    /\ entry_no <= Len(feed_entries)
    /\ LET url == search(feed_entries[entry_no])
       IN  rss_urls' = IF url # "None" THEN Append(rss_urls, url) ELSE rss_urls
    /\ entry_no' = entry_no + 1
    /\ UNCHANGED <<index_page, site_content, feed_entries, index_pc>>
    /\ UNCHANGED <<batchVars, brokerVars, streamVars>>

\* return rss_urls; get_data_collection_futures submits one future per url
\* and returns the futures to main().
SubmitFeeds ==
    /\ index_pc = "loop"
    /\ entry_no > Len(feed_entries)
    /\ pc = "enum"
    /\ fstate' = [i \in DOMAIN rss_urls |-> "pending"]
    /\ fresult' = [i \in DOMAIN rss_urls |-> [kind |-> "unset"]]
    /\ log_level' = [i \in DOMAIN rss_urls |-> "none"]
    /\ log_origin' = [i \in DOMAIN rss_urls |-> "none"]
    /\ pc' = "loop"
    /\ index_pc' = "returned"
    /\ UNCHANGED <<index_page, site_content, feed_entries, entry_no, rss_urls>>
    /\ UNCHANGED <<data_source, producer_ok, max_workers, yielded, cur, units,
                   count_successful, count_failed, report>>
    /\ UNCHANGED <<brokerVars, streamVars>>

NextFeedUrls ==
    \/ GetIndexPage
    \/ FindEntries
    \/ AppendUrl
    \/ SubmitFeeds

SpecFeedUrls == InitFeedUrls /\ [][NextFeedUrls]_vars

(* ---------------------- properties of the batch run -------------------- *)
\* The result loop has handled every future.
LoopFinished == pc = "done" \/ (pc = "loop" /\ yielded = Items)

Logged(levels) == {i \in Items : log_level[i] \in levels}

\* The worker function of item i gave a result to publish.
Fetched(i) == fresult[i].kind \in {"value", "Response"}

Payload(i) == IF fresult[i].kind = "Response" THEN fresult[i].text ELSE fresult[i].val

\* The messages of a sequence that publish call `call` sent.
CallMessages(seq, call) ==
    LET OfCall(m) == m.call = call
    IN  SelectSeq(seq, OfCall)

\* The loop wrote the error entry of item i for an exception of publish.
PublishFailed(i) == log_level[i] = "error" /\ log_origin[i] = "publish"

\* The publish call of item i cannot return: the payload cannot be split, or
\* there is no broker client.
MustRaise(i) == Fetched(i) /\ (PublishRaises(data_source, Payload(i)) \/ ~producer_ok)

\* C1: once the result loop has finished, count_successful + count_failed is
\* the number N of submitted items, and every item is counted exactly once:
\* the successes are the items logged as published, the failures the items
\* logged with a warning or an error, and no item is left without an entry.
C1_EveryItemCountedOnce ==
    LoopFinished =>
        /\ count_successful + count_failed = Cardinality(Items)
        /\ count_successful = Cardinality(Logged({"info"}))
        /\ count_failed = Cardinality(Logged({"warning", "error"}))
        /\ Logged({"none"}) = {}

C1_Witness ==
    /\ pc = "done"
    /\ Cardinality(Items) = 2
    /\ Logged({"info"}) # {}
    /\ Logged({"warning"}) # {}

\* C2: a failing worker function (an exception, or no response) aborts
\* nothing: main() is left by an exception only when no item was submitted,
\* and when the loop has finished every item whose fetch succeeded was
\* published and counted as successful, unless its own publish call raised.
C2_SiblingsUnaffected ==
    /\ pc = "crashed" => Items = {}
    /\ LoopFinished =>
          \A i \in Items :
              Fetched(i) =>
                  \/ PublishFailed(i)
                  \/ /\ log_level[i] = "info"
                     /\ Len(CallMessages(delivered, i))
                           = Len(PublishUnits(data_source, Payload(i)))

C2_Witness ==
    /\ pc = "done"
    /\ \E i, j \in Items :
          /\ ~Fetched(i)
          /\ log_level[i] \in {"warning", "error"}
          /\ Fetched(j)
          /\ log_level[j] = "info"
          /\ CallMessages(delivered, j) # <<>>

\* C3: an exception of Producer.publish stays inside the loop: the item is
\* logged as an error and counted as failed, never as successful; only items
\* whose publish call returned are counted as successful; and the loop goes
\* on until every result is handled.
C3_PublishFailureCounted ==
    /\ count_failed = Cardinality(Logged({"warning", "error"}))
    /\ count_successful = Cardinality(Logged({"info"}))
    /\ \A i \in Items :
          /\ (MustRaise(i) /\ log_level[i] # "none") => PublishFailed(i)
          /\ log_level[i] = "info" =>
                /\ Fetched(i)
                /\ producer_ok
                /\ Len(CallMessages(delivered, i))
                      = Len(PublishUnits(data_source, Payload(i)))
    /\ pc = "crashed" => Items = {}
    /\ pc = "done" => Logged({"none"}) = {}

C3_Witness ==
    /\ pc = "done"
    /\ producer_ok
    /\ \E i, j \in Items :
          /\ PublishFailed(i)
          /\ log_level[j] = "info"

\* What the body of the message for entry k of the feed of item i has to be:
\* the entry with feed_source, set to the title of the feed, added.
ExpectedRssBody(i, k) ==
    <<"{", "link", ":", EntryLink(i, k), ",", "feed_source", ":", FeedTitle(i), "}">>

AllMessages == delivered \o buffer

C8_FlushBeforeReturn ==
    /\ pc = "returned" =>
          /\ buffer = <<>>
          /\ units = <<>>
          /\ Len(CallMessages(delivered, cur))
                = Len(PublishUnits(data_source, Payload(cur)))
    /\ \A i \in Items :
          log_level[i] = "info" => CallMessages(buffer, i) = <<>>

C8_Witness ==
    /\ pc = "returned"
    /\ Len(CallMessages(delivered, cur)) = 2
    /\ count_successful = 1

(* ----------------- properties of the reconciliation pass --------------- *)
\* The rules the transport held when the pass of thread p read them.
Before(p) == Range(prules[p])

Candidates(p) == Range(presults[p])

\* The pass of thread p has read the rules and computed what to change.
Diffed(p) == ppc[p] \in {"delete", "add", "done"}

\* C4: when a pass is complete the tags of the active rules are exactly the
\* candidate topics, and no two rules carry the same tag.
C4_TagsAreCandidates ==
    \A p \in Threads :
        ppc[p] = "done" =>
            /\ Tags(rules) = Candidates(p)
            /\ Cardinality(rules) = Cardinality(Tags(rules))

C4_Witness ==
    /\ ppc["timer"] = "done"
    /\ Cardinality(rules) = 2
    /\ Tags(Before("timer")) # Tags(rules)

C7_OneMessagePerEvent ==
    \A n \in DOMAIN events :
        events[n].published =>
            Len(CallMessages(delivered, n)) = 1

\* C9: while the stream is open, the rules the transport matches tweets
\* against are, during a pass of the timer thread, either the rules from
\* before the pass or the rules with all its deletions and additions applied.
C9_PassSeenAtomically ==
    (main_pc = "filter" /\ Diffed("timer")) =>
        \/ rules = Before("timer")
        \/ Tags(rules) = Candidates("timer")

\* C10: after the stop transition (stop_thread set and the timer cancelled)
\* no pass issues a get_rules, delete_rules or add_rules call.
C10_NoCallAfterStop ==
    [][main_pc = "returned" =>
          ~(/\ ppc["timer"] \in {"get_rules", "delete", "add"}
            /\ ppc'["timer"] # ppc["timer"])]_vars

\* C11: a failure of the trends source during a refresh, the first or one of
\* the timer, leaves the active rules as they were and does not end the
\* session: the exception never leaves stream_into_producer.
C11_TrendFailureTolerated ==
    [][/\ \A p \in Threads : ppc'[p] = "TweepyException" => rules' = rules
       /\ main_pc' # "TweepyException"]_vars

(* ------------------ more properties of the batch run ------------------- *)
\* The fetch of item i failed at the network level: get_request met an
\* exception of requests.get (a timeout among them) and returned None, or the
\* worker raised a RequestException.
NetworkFailure(i) ==
    \/ fresult[i].kind = "None"
    \/ fresult[i].kind = "raise" /\ fresult[i].exc = "RequestException"

\* C12: an item whose fetch timed out or failed at the network level is
\* handled by the RequestException branch: its log entry is a warning.
C12_NetworkFailureIsWarning ==
    \A i \in Items :
        (NetworkFailure(i) /\ log_level[i] # "none") => log_level[i] = "warning"

\* C13: a failing enumeration ends the run before anything else happens: no
\* future exists, no result is consumed, no key is drawn and no message
\* sent; and the run never ends while a submitted item is unhandled, whatever
\* happened to the items before it.
C13_OnlyEnumerationIsFatal ==
    /\ pc = "crashed" =>
          /\ Items = {}
          /\ yielded = {}
          /\ cur = 0
          /\ next_key = 0
          /\ AllMessages = <<>>
          /\ count_successful = 0 /\ count_failed = 0
    /\ pc = "done" =>
          /\ yielded = Items
          /\ Logged({"none"}) = {}

C13_Witness == pc = "crashed" /\ data_source = "rss"

\* C14: when the run has ended because the enumeration failed, the job
\* collection has received one record, with zero successful and zero failed
\* events.
C14_SummaryAfterFailedEnumeration ==
    pc = "crashed" =>
        report = <<[successful_events |-> 0, failed_events |-> 0]>>

\* C15: when the construction of the broker client failed, the run goes no
\* further: no item is enumerated, none fetched and none counted.
C15_NoRunWithoutProducer ==
    ~producer_ok =>
        /\ Items = {}
        /\ count_successful = 0
        /\ count_failed = 0

\* C16: the data of an item whose publish call was interrupted by an error
\* is dropped: the item is counted as failed and the broker has received no
\* message of it.
C16_FailedItemNotDelivered ==
    /\ count_failed = Cardinality(Logged({"warning", "error"}))
    /\ \A i \in Items :
          PublishFailed(i) => CallMessages(delivered, i) = <<>>

\* The worker function of item i raised or returned no response.
FetchFailed(i) == fresult[i].kind \in {"None", "raise"}

\* producer.publish has been called for item i.
PublishCalled(i) == i = cur \/ log_level[i] = "info" \/ PublishFailed(i)

\* The broker client exists and has raised in no send and no flush: every
\* publish call that raised did so while splitting its payload.
BrokerAcceptedAll ==
    /\ producer_ok
    /\ \A i \in Items : PublishFailed(i) => PublishRaises(data_source, Payload(i))

FailedFetches == {i \in Items : FetchFailed(i)}

SummaryIs(successful, failed) ==
    report = <<[successful_events |-> successful, failed_events |-> failed]>>

Returned(a) == calls[a].outcome = "returned"

\* The bodies of the messages call a sent, in the order of the sends.
BodiesOf(a) ==
    LET sent == CallMessages(AllMessages, a)
    IN  [k \in DOMAIN sent |-> sent[k].value]

\* C18: two publish calls with the same payload on the same topic that both
\* returned have each sent the complete set of messages of that payload,
\* nothing being deduplicated; and no two messages ever sent, of one call or
\* of two, carry the same key.
C18_NoDeduplication ==
    /\ \A a, b \in DOMAIN calls :
          (/\ a < b
           /\ calls[a].topic = calls[b].topic
           /\ calls[a].message = calls[b].message
           /\ Returned(a) /\ Returned(b)) =>
              /\ BodiesOf(a) = PublishUnits(calls[a].topic, calls[a].message)
              /\ BodiesOf(b) = BodiesOf(a)
    /\ \A m, n \in DOMAIN AllMessages :
          m # n => AllMessages[m].key # AllMessages[n].key

C18_Witness ==
    /\ Len(calls) = 2
    /\ calls[1].topic = "rss"
    /\ calls[2] = calls[1]
    /\ Returned(1)
    /\ Len(BodiesOf(1)) = 2
    /\ Len(delivered) = 4

\* The messages of call a the broker has acknowledged.
DeliveredBodiesOf(a) ==
    LET sent == CallMessages(delivered, a)
    IN  [k \in DOMAIN sent |-> sent[k].value]

\* C19: an error of a send or of the flush leaves publish as an exception,
\* on every topic: a call that has returned had a broker client, all its
\* sends accepted and its flush completed, so that every message of its
\* payload is acknowledged.
C19_BrokerErrorsRaised ==
    \A a \in DOMAIN calls :
        Returned(a) =>
            /\ producer_ok
            /\ DeliveredBodiesOf(a) = PublishUnits(calls[a].topic, calls[a].message)
            /\ CallMessages(buffer, a) = <<>>

C19_Witness ==
    /\ Len(calls) = 2
    /\ calls[1].topic = "twitter"
    /\ Len(calls[1].message.v) = 2
    /\ calls[1].outcome = "raised"
    /\ Len(BodiesOf(1)) = 1
    /\ calls[2].topic = "reddit"
    /\ Returned(2)

\* The structured records of a payload: the elements of a list; the one
\* record inside the JSON text _process_tweet returns.
RecordCount(message) == IF message.t = "list" THEN Len(message.v) ELSE 1

\* C20: a publish call on a twitter topic that has returned has sent as many
\* messages as its payload has records.
C20_OneSendPerRecord ==
    \A a \in DOMAIN calls :
        (Returned(a) /\ Contains(calls[a].topic, "twitter")) =>
            Len(BodiesOf(a)) = RecordCount(calls[a].message)

(* -------------- more properties of the reconciliation pass ------------- *)
\* The candidate topics of the pass of p are the tags the rules had when it
\* read them: those the pass before it has left.
SameCandidates(p) == Candidates(p) = Tags(Before(p))

\* C21: a pass whose candidate topics are those of the pass before it finds
\* nothing to delete and nothing to add, goes to its end without a
\* delete_rules or add_rules call, and the rules are the ones it has read.
C21_SecondPassIsNoOp ==
    \A p \in Threads :
        /\ (Diffed(p) /\ SameCandidates(p)) =>
              /\ ppc[p] = "done"
              /\ pdelete[p] = <<>>
              /\ ptrends[p] = <<>>
              /\ rules = Before(p)
        /\ ppc[p] = "TypeError" => rules = {}

C21_Witness ==
    /\ ppc["timer"] = "done"
    /\ SameCandidates("timer")
    /\ Cardinality(rules) = 2
    /\ rules = Before("timer")

\* C22: in a pass the deletions come first: while delete_rules is still to
\* be called nothing has been added, when add_rules is about to be called
\* every rule marked for deletion is gone, and at no moment do two rules
\* carry the same tag.
C22_RemovalsBeforeAdditions ==
    /\ \A p \in Threads :
          /\ ppc[p] = "delete" => rules = Before(p)
          /\ ppc[p] = "add" => rules = DeleteRulesOf(Before(p), pdelete[p])
    /\ Cardinality(rules) = Cardinality(Tags(rules))

C22_Witness ==
    /\ ppc["timer"] = "add"
    /\ pdelete["timer"] # <<>>
    /\ rules # Before("timer")
    /\ main_pc = "filter"

(* ------------------- properties of the schedule thread ----------------- *)
\* The pass of thread p has ended, by returning or by an exception.
PassEnded(p) == ppc[p] \in {"done"} \cup PassExceptions

\* C23: every pass of the timer that has ended, completed or failed, and the
\* first pass once it has completed, is followed by the start of another
\* pass, unless the session is stopped first.
C23_TimerRearmed ==
    /\ PassEnded("timer") ~> (ppc["timer"] = "get_trends" \/ stop_thread)
    /\ (ppc["main"] = "done") ~> (ppc["timer"] = "get_trends" \/ stop_thread)

\* The pass of the timer has failed, the schedule thread has joined its
\* thread and is about to create the next Timer.
C23_Witness ==
    /\ sched_pc = "new"
    /\ tstate = "dead"
    /\ ~tfinished
    /\ ~stop_thread
    /\ main_pc = "filter"

\* The Timer self.timer refers to is started, waits for its interval and
\* is not cancelled.
TimerArmed == tstate = "waiting" /\ ~tfinished

\* C24: after the stop transition the schedule thread ends, with the last
\* Timer either ended or never started, and from the transition on no Timer
\* is armed without being cancelled.
C24_ScheduleThreadEnds ==
    /\ (main_pc = "returned") ~> (sched_pc = "exited" /\ tstate \in {"new", "dead"})
    /\ [](main_pc = "returned" => ~TimerArmed)

\* The stop transition is made when the loop has passed its test of
\* stop_thread and is about to start the Timer.
C24_Witness ==
    /\ main_pc = "returned"
    /\ sched_pc = "start"
    /\ tstate = "new"
    /\ tfinished

(* --------------------- properties of the stream callback --------------- *)
\* The text the messages of publish call n of the stream spell, each of
\* them the JSON string of one symbol of it.
PublishedText(n) ==
    LET sent == CallMessages(delivered, n)
    IN  [k \in DOMAIN sent |-> sent[k].value[2]]

\* C25: the record published for a tweet carries as its trend the tag of
\* the rule the transport reported as matching when it delivered the tweet,
\* whatever has become of the active rules since.
C25_TagFromMatchingRule ==
    \A n \in DOMAIN events :
        events[n].published =>
            PublishedText(n)
                = json_dumps(List(<<TweetDict(events[n].tweet_id, events[n].tag)>>))

\* A published tweet whose rule a later pass has deleted.
C25_Witness ==
    /\ Len(events) = 1
    /\ events[1].published
    /\ events[1].tag = Topic(1)
    /\ Tags(rules) = {Topic(2)}

(* ------------------- properties of the worker pool --------------------- *)
\* C26: the loop takes the results as they complete: between two
\* iterations every completed result not yet handled can be the next one,
\* whatever the other items are doing; and only completed results are taken.
C26_ConsumedAsCompleted ==
    /\ \A i \in Items :
          (pc = "loop" /\ fstate[i] = "done" /\ i \notin yielded) => ENABLED NextResult(i)
    /\ \A i \in yielded : fstate[i] = "done"

\* The second item is published and counted while the first, submitted
\* before it, is still being fetched.
C26_Witness ==
    /\ Cardinality(Items) = 2
    /\ fstate[1] = "running"
    /\ log_level[2] = "info"
    /\ count_successful = 1
    /\ CallMessages(delivered, 2) # <<>>

\* C27: at every moment of a batch run at most max_workers item fetches
\* are executing, however many items were submitted.
C27_AtMostMaxWorkers ==
    Cardinality(Running) <= max_workers

\* The limit binds: every worker is busy and a submitted item waits.
C27_Witness ==
    /\ Cardinality(Running) = max_workers
    /\ Pending # {}
    /\ Cardinality(Items) > max_workers

\* C28: control has left the executor scope only when every submitted task
\* has finished and no worker is busy: after the loop drained the results,
\* and after an exception raised while the tasks were being submitted.
C28_WorkersJoinedOnExit ==
    pc \in {"done", "crashed", "aborted"} =>
        /\ Running = {}
        /\ Pending = {}
        /\ \A i \in Items : fresult[i].kind # "unset"

\* The scope was left by an exception after two tasks had been submitted.
C28_Witness ==
    /\ pc = "aborted"
    /\ Cardinality(Items) = 2
    /\ yielded = {}

\* C29: the futures are created once, by the enumeration, one per item; a
\* fetch that started runs to its end once and its result stays; a result
\* is taken by the loop once. No step submits an item again or runs its
\* fetch a second time, whether the fetch failed or not.
C29_NoRetry ==
    [][/\ pc # "enum" => Items' = Items
       /\ \A i \in Items :
             /\ fstate[i] = "running" => fstate'[i] \in {"running", "done"}
             /\ fstate[i] = "done" => (fstate'[i] = "done" /\ fresult'[i] = fresult[i])
             /\ i \in yielded => i \in yielded'
             /\ log_level[i] # "none" => log_level'[i] = log_level[i]]_vars

\* The run has ended with one item failed in each of the two ways.
C29_Witness ==
    /\ pc = "done"
    /\ Cardinality(Items) = 2
    /\ Logged({"warning"}) # {}
    /\ Logged({"error"}) # {}
    /\ count_failed = 2

(* ------------------- properties of the rss enumeration ----------------- *)
\* An element of the page that is a feed entry: an anchor that opens with
\* the class of the feed entries and is written on one line.
IsFeedEntry(element) ==
    /\ Head(element) = OpenExt
    /\ element[Len(element)] = AnchorClose
    /\ \E n \in 2..(Len(element) - 1) : HasTagEnd(element[n])
    /\ \A n \in DOMAIN element : element[n] # LineBreak

\* The http addresses a feed entry holds.
HttpUrlsOf(element) ==
    {UrlOf(element[n]) : n \in {m \in DOMAIN element : element[m] \in HttpHrefs}}

IsHttpEntry(element) == IsFeedEntry(element) /\ HttpUrlsOf(element) # {}

\* C30: _get_feed_urls returns one URL for each feed entry of the index
\* page that holds an http href, in the order of the page, each URL one of
\* its own entry, and nothing for any other element; and one item is
\* submitted for each of these entries.
C30_OneUrlPerHttpEntry ==
    index_pc = "returned" =>
        LET entries == SelectSeq(index_page, IsHttpEntry)
        IN  /\ Len(rss_urls) = Len(entries)
            /\ \A n \in DOMAIN entries : rss_urls[n] \in HttpUrlsOf(entries[n])
            /\ Cardinality(Items) = Len(entries)

\* A page of an entry with an http href, an entry without one and a second
\* entry with another http href: two URLs, in this order, and two items.
C30_Witness ==
    /\ index_pc = "returned"
    /\ index_page = <<Anchor(OpenExt, <<HrefB>>), Anchor(OpenExt, <<HrefRelative>>),
                      Anchor(OpenExt, <<HrefA>>)>>
    /\ rss_urls = <<"https://b.example/feed", "http://a.example/rss">>
    /\ Cardinality(Items) = 2

(* ---------------- properties of the session's threads ------------------ *)
\* Thread p is inside _get_current_trends.
InPass(p) == ppc[p] # "idle"

\* C31: at most one thread is inside _get_current_trends. The first pass
\* runs while the schedule thread is not started and no Timer exists; a
\* pass of a Timer runs while the schedule thread waits in join for that
\* Timer, and a Timer that is new or waiting finds no pass going on.
C31_OnePassAtATime ==
    /\ Cardinality({p \in Threads : InPass(p)}) <= 1
    /\ InPass("main") => (sched_pc = "not_started" /\ tstate = "none")
    /\ InPass("timer") => (sched_pc = "join" /\ tstate = "running")
    /\ tstate \in {"new", "waiting", "firing"} => ~InPass("timer")

\* The pass of a Timer is about to add rules, after it deleted some, while
\* the main thread is in client.filter and the schedule thread in join.
C31_Witness ==
    /\ ppc["timer"] = "add"
    /\ pdelete["timer"] # <<>>
    /\ ~InPass("main")
    /\ main_pc = "filter"
    /\ sched_pc = "join"

\* C32: a first pass that finds the transport without rules does not fail:
\* no TypeError leaves it or stream_into_producer; when it is complete the
\* rules are one per topic fetched; and client.filter is entered only after
\* it has returned.
C32_FirstPassWithoutRules ==
    /\ ppc["main"] # "TypeError"
    /\ main_pc # "TypeError"
    /\ (ppc["main"] = "done" /\ Before("main") = {}) =>
          /\ Tags(rules) = Candidates("main")
          /\ Cardinality(rules) = Cardinality(Candidates("main"))
    /\ main_pc = "filter" => ~InPass("main")

\* C33: once on_errors has disconnected the client and client.filter has
\* returned, stream_into_producer goes on to its end: stop_thread is set
\* and stays set, and at the step that ends it the Timer self.timer refers
\* to is cancelled.
C33_ErrorsStopSession ==
    /\ (main_pc = "stopping") ~> (main_pc = "returned" /\ stop_thread)
    /\ [](main_pc \in {"cancel", "returned"} => stop_thread)
    /\ [][(main_pc # "returned" /\ main_pc' = "returned") => tfinished']_vars

\* The errors came while a Timer was waiting for its interval: the session
\* is stopped and that Timer cancelled before it woke.
C33_Witness ==
    /\ main_pc = "returned"
    /\ stop_thread
    /\ tstate = "waiting"
    /\ tfinished
    /\ sched_pc = "join"

====
